---- MODULE Spec2Model ----
(***************************************************************************)
(* Model of two scripts of the repository:                                 *)
(*   python/brute_force_homomorphism_counter.py  (verify, solve)           *)
(*   python/random_graph_generation.py           (random_graph)            *)
(* solve is stepped one candidate assignment at a time; random_graph is    *)
(* stepped one random draw (u, v) at a time.                               *)
(***************************************************************************)
EXTENDS Integers, Sequences, FiniteSets, TLC

\* ---------------------------------------------------------------- bounds
MaxN == 2
MaxM == 2
MaxGEdges == 2
MaxHEdges == 1
MaxRGN == 3
MaxRGM == 4

VARIABLES
    G,            \* source edges, in the order `for edge in G` visits them
    H,            \* target edge set
    n, m,         \* declared vertex counts
    i,            \* index in `assignments` of the next candidate f
    cnt,          \* the accumulator of solve
    pc,           \* position of solve: idle | start | loop | done | error
    rg_n, rg_m,   \* arguments of random_graph
    adjacency_matrix,
    rg_i,         \* the outer loop's i of random_graph
    u, v,         \* the last pair drawn by random_graph
    rg_pc         \* position of random_graph: idle | loop | done | error

vars == <<G, H, n, m, i, cnt, pc,
          rg_n, rg_m, adjacency_matrix, rg_i, u, v, rg_pc>>
solveVars == <<G, H, n, m, i, cnt, pc>>
rgVars == <<rg_n, rg_m, adjacency_matrix, rg_i, u, v, rg_pc>>

\* ------------------------------------------------------------- helpers
RECURSIVE Pow(_, _)
Pow(b, e) == IF e = 0 THEN 1 ELSE b * Pow(b, e - 1)

Pairs(k) == (0 .. k - 1) \X (0 .. k - 1)

ToSet(s) == {s[k] : k \in 1 .. Len(s)}

Reverse(s) == [k \in 1 .. Len(s) |-> s[Len(s) + 1 - k]]

\* rangeH = [i for i in range(m)]
RangeList(k) == [j \in 1 .. k |-> j - 1]

\* One round of itertools.product: [x + [y] for x in result for y in pool]
ExtendAll(result, pool) ==
    [k \in 1 .. Len(result) * Len(pool) |->
        Append(result[((k - 1) \div Len(pool)) + 1],
               pool[((k - 1) % Len(pool)) + 1])]

\* itertools.product(pool, repeat=r) as a list: result = [[]], then r rounds
Product(pool, r) ==
    LET RECURSIVE P(_)
        P(k) == IF k = 0 THEN << <<>> >> ELSE ExtendAll(P(k - 1), pool)
    IN  P(r)

\* (variant: a product that yields nothing for repeat=0)
NumAssignmentsNoEmptyTuple(mm, nn) == IF nn = 0 THEN 0 ELSE Pow(mm, nn)
\* len(assignments): the product of n pools of m values; one (empty)
\* tuple when n = 0, none when m = 0 < n
NumAssignments(mm, nn) == Pow(mm, nn)

\* assignments[k], 0 <= k < len(assignments): product yields the tuples in
\* lexicographic order, the last position varying fastest
AssignmentAt(k, mm, nn) ==
    [j \in 1 .. nn |-> (k \div Pow(mm, nn - j)) % mm]

\* (variant: a failing edge is skipped instead of ending the check)
VerifyNoReject(g, h, f) ==
    LET RECURSIVE From(_)
        From(k) ==
            IF k > Len(g) THEN "True"
            ELSE IF g[k][1] >= Len(f) \/ g[k][2] >= Len(f) THEN "IndexError"
            ELSE From(k + 1)
    IN  From(1)
\* (variant: the check returns after the first edge)
VerifyFirstEdgeOnly(g, h, f) ==
    IF Len(g) = 0 THEN "True"
    ELSE IF g[1][1] >= Len(f) \/ g[1][2] >= Len(f) THEN "IndexError"
    ELSE IF <<f[g[1][1] + 1], f[g[1][2] + 1]>> \notin h THEN "False"
    ELSE "True"
\* verify(G, H, f): "True", "False", or "IndexError" when f[edge[0]] or
\* f[edge[1]] indexes past the end of the tuple f. Vertex ids are naturals
\* (Python's negative indexes are not among the inputs).
Verify(g, h, f) ==
    LET RECURSIVE From(_)
        From(k) ==
            IF k > Len(g) THEN "True"
            ELSE IF g[k][1] >= Len(f) THEN "IndexError"
            ELSE IF g[k][2] >= Len(f) THEN "IndexError"
            ELSE IF <<f[g[k][1] + 1], f[g[k][2] + 1]>> \notin h THEN "False"
            ELSE From(k + 1)
    IN  From(1)

\* ------------------------------------------------------- inputs of solve
\* Edges over [0, k) plus two edges with an endpoint equal to k.
EdgePool(k) == Pairs(k) \cup {<<k, 0>>, <<0, k>>}

DistinctSeqs(S, len) ==
    {s \in UNION {[1 .. l -> S] : l \in 0 .. len} :
        \A a, b \in 1 .. Len(s) : a # b => s[a] # s[b]}

Complete(k) == Pairs(k)
CompleteIrreflexive(k) == {p \in Pairs(k) : p[1] # p[2]}

Loops(k) == {p \in Pairs(k) : p[1] = p[2]}
DirectedCycle(k) == {p \in Pairs(k) : p[2] = (p[1] + 1) % k}

NamedH(k) ==
    {{}, Complete(k), CompleteIrreflexive(k), Loops(k), DirectedCycle(k)}

HFamily(k) ==
    {h \in SUBSET EdgePool(k) : Cardinality(h) <= MaxHEdges} \cup NamedH(k)

\* The commented example of the script, with n = m = 5.
ExampleG ==
    <<<<0, 1>>, <<1, 0>>, <<1, 3>>, <<3, 1>>, <<1, 2>>, <<2, 1>>, <<2, 4>>, <<4, 2>>>>
ExampleH == CompleteIrreflexive(5)
Example == [G |-> ExampleG, H |-> ExampleH, n |-> 5, m |-> 5]

SolveIdle ==
    /\ G = <<>> /\ H = {} /\ n = 0 /\ m = 0
    /\ i = 0 /\ cnt = 0 /\ pc = "idle"

RGIdle ==
    /\ rg_n = 0 /\ rg_m = 0 /\ adjacency_matrix = <<>>
    /\ rg_i = 0 /\ u = 0 /\ v = 0 /\ rg_pc = "idle"

\* ------------------------------------------------------------------ solve
\* A call solve(G, H, n, m) about to start.
SmallInputs ==
    \E nn \in 0 .. MaxN, mm \in 0 .. MaxM :
        /\ n = nn /\ m = mm
        /\ G \in DistinctSeqs(EdgePool(nn), MaxGEdges)
        /\ H \in HFamily(mm)

ExampleInputs ==
    /\ n = Example.n /\ m = Example.m
    /\ G \in {Example.G, Reverse(Example.G)}
    /\ H = Example.H

InitSolve ==
    /\ SmallInputs \/ ExampleInputs
    /\ i = 0 /\ cnt = 0 /\ pc = "start"
    /\ RGIdle

\* The same call with H one of the named target graphs over [0,m).
InitSolveNamed ==
    /\ \E nn \in 0 .. MaxN, mm \in 0 .. MaxM :
        /\ n = nn /\ m = mm
        /\ G \in DistinctSeqs(EdgePool(nn), MaxGEdges)
        /\ H \in NamedH(mm)
    /\ i = 0 /\ cnt = 0 /\ pc = "start"
    /\ RGIdle

\* rangeH, assignments = list(product(rangeH, repeat=n)), cnt = 0
Materialize ==
    /\ pc = "start"
    /\ cnt' = 0
    /\ i' = 0
    /\ pc' = "loop"
    /\ UNCHANGED <<G, H, n, m, rgVars>>

\* (variant: the accumulator grows by 2)
StepAcceptTwice ==
    /\ pc = "loop"
    /\ i < NumAssignments(m, n)
    /\ Verify(G, H, AssignmentAt(i, m, n)) = "True"
    /\ cnt' = cnt + 2
    /\ i' = i + 1
    /\ UNCHANGED <<G, H, n, m, pc, rgVars>>
\* (variant: the accumulator is not incremented)
StepAcceptNoCount ==
    /\ pc = "loop"
    /\ i < NumAssignments(m, n)
    /\ Verify(G, H, AssignmentAt(i, m, n)) = "True"
    /\ cnt' = cnt
    /\ i' = i + 1
    /\ UNCHANGED <<G, H, n, m, pc, rgVars>>
\* one iteration of `for f in assignments` where verify returns True
StepAccept ==
    /\ pc = "loop"
    /\ i < NumAssignments(m, n)
    /\ Verify(G, H, AssignmentAt(i, m, n)) = "True"
    /\ cnt' = cnt + 1
    /\ i' = i + 1
    /\ UNCHANGED <<G, H, n, m, pc, rgVars>>

\* (variant: a rejected candidate ends the enumeration)
StepRejectBreaks ==
    /\ pc = "loop"
    /\ i < NumAssignments(m, n)
    /\ Verify(G, H, AssignmentAt(i, m, n)) = "False"
    /\ i' = NumAssignments(m, n)
    /\ UNCHANGED <<G, H, n, m, cnt, pc, rgVars>>
\* (variant: a rejected candidate removes an edge from G)
StepRejectConsumesEdge ==
    /\ pc = "loop"
    /\ i < NumAssignments(m, n)
    /\ Verify(G, H, AssignmentAt(i, m, n)) = "False"
    /\ i' = i + 1
    /\ G' = Tail(G)
    /\ UNCHANGED <<H, n, m, cnt, pc, rgVars>>
\* one iteration of `for f in assignments` where verify returns False
StepReject ==
    /\ pc = "loop"
    /\ i < NumAssignments(m, n)
    /\ Verify(G, H, AssignmentAt(i, m, n)) = "False"
    /\ i' = i + 1
    /\ UNCHANGED <<G, H, n, m, cnt, pc, rgVars>>

\* the iteration where f[edge[0]] or f[edge[1]] raises: solve is abandoned
StepRaise ==
    /\ pc = "loop"
    /\ i < NumAssignments(m, n)
    /\ Verify(G, H, AssignmentAt(i, m, n)) = "IndexError"
    /\ pc' = "error"
    /\ UNCHANGED <<G, H, n, m, i, cnt, rgVars>>

\* return cnt
Return ==
    /\ pc = "loop"
    /\ i = NumAssignments(m, n)
    /\ pc' = "done"
    /\ UNCHANGED <<G, H, n, m, i, cnt, rgVars>>

Next == Materialize \/ StepAccept \/ StepReject \/ StepRaise \/ Return

Spec == InitSolve /\ [][Next]_vars

\* solve runs straight through: no step of it waits on anything.
FairSpec == InitSolveNamed /\ [][Next]_vars /\ WF_vars(Next)

\* ----------------------------------------------------------- random_graph
ZeroMatrix(k) == [x \in 0 .. k - 1 |-> [y \in 0 .. k - 1 |-> 0]]

\* A call random_graph(n, m) after the matrix is created.
InitRG ==
    /\ rg_n \in 0 .. MaxRGN
    /\ rg_m \in 0 .. MaxRGM
    /\ adjacency_matrix = ZeroMatrix(rg_n)
    /\ rg_i = 0 /\ u = 0 /\ v = 0
    /\ rg_pc = "loop"
    /\ SolveIdle

\* (variant: only adjacency_matrix[u][v] is set)
RGInsertOneSided ==
    /\ rg_pc = "loop"
    /\ rg_i < rg_m
    /\ \E uu, vv \in 0 .. rg_n - 1 :
        /\ adjacency_matrix[uu][vv] = 0
        /\ adjacency_matrix' = [adjacency_matrix EXCEPT ![uu][vv] = 1]
        /\ u' = uu /\ v' = vv
    /\ rg_i' = rg_i + 1
    /\ UNCHANGED <<rg_n, rg_m, rg_pc, solveVars>>
\* a draw that finds adjacency_matrix[u][v] == 0
RGInsert ==
    /\ rg_pc = "loop"
    /\ rg_i < rg_m
    /\ \E uu, vv \in 0 .. rg_n - 1 :
        /\ adjacency_matrix[uu][vv] = 0
        /\ adjacency_matrix' =
              [adjacency_matrix EXCEPT ![uu][vv] = 1, ![vv][uu] = 1]
        /\ u' = uu /\ v' = vv
    /\ rg_i' = rg_i + 1
    /\ UNCHANGED <<rg_n, rg_m, rg_pc, solveVars>>

\* a draw that finds the entry already set: the while loop goes round again
RGRetry ==
    /\ rg_pc = "loop"
    /\ rg_i < rg_m
    /\ \E uu, vv \in 0 .. rg_n - 1 :
        /\ adjacency_matrix[uu][vv] # 0
        /\ u' = uu /\ v' = vv
    /\ UNCHANGED <<rg_n, rg_m, adjacency_matrix, rg_i, rg_pc, solveVars>>

\* random.randint(0, n-1) with n = 0 raises ValueError (empty range)
RGRaise ==
    /\ rg_pc = "loop"
    /\ rg_i < rg_m
    /\ rg_n = 0
    /\ rg_pc' = "error"
    /\ UNCHANGED <<rg_n, rg_m, adjacency_matrix, rg_i, u, v, solveVars>>

\* the outer loop is exhausted; the matrix is then rendered as text
RGExit ==
    /\ rg_pc = "loop"
    /\ rg_i = rg_m
    /\ rg_pc' = "done"
    /\ UNCHANGED <<rg_n, rg_m, adjacency_matrix, rg_i, u, v, solveVars>>

NextRG == RGInsert \/ RGRetry \/ RGRaise \/ RGExit

SpecRG == InitRG /\ [][NextRG]_vars

\* ================================================================ claims
GInRange == \A k \in 1 .. Len(G) : G[k][1] < n /\ G[k][2] < n
HInRange == \A e \in H : e[1] < m /\ e[2] < m

\* The total functions f : [0,nn) -> [0,mm) that map every edge of g into h.
Homomorphisms(g, h, nn, mm) ==
    {f \in [0 .. nn - 1 -> 0 .. mm - 1] :
        \A e \in g : <<f[e[1]], f[e[2]]>> \in h}

\* Every order in which the edges of g may be iterated (the two listed
\* orders for an edge list longer than the enumerated inputs).
Orders(g) ==
    IF Len(g) <= MaxGEdges + 1
    THEN {s \in [1 .. Len(g) -> ToSet(g)] : ToSet(s) = ToSet(g)}
    ELSE {g, Reverse(g)}

\* solve(g, h, nn, mm) as a whole: whether it raises, and the count it returns
SolveOp(g, h, nn, mm) ==
    LET K == 0 .. NumAssignments(mm, nn) - 1
    IN  [raised |->
            \E k \in K : Verify(g, h, AssignmentAt(k, mm, nn)) = "IndexError",
         cnt |->
            Cardinality({k \in K : Verify(g, h, AssignmentAt(k, mm, nn)) = "True"})]

\* C1: for G over [0,n) and H over [0,m), n,m >= 1, solve returns (it does
\* not raise) and the count returned is the number of total functions
\* f : [0,n) -> [0,m) with (f(u),f(v)) in H for every edge (u,v) of G.
C1_CountsHomomorphisms ==
    (GInRange /\ HInRange /\ n >= 1 /\ m >= 1) =>
        /\ pc # "error"
        /\ pc = "done" =>
             cnt = Cardinality(Homomorphisms(ToSet(G), H, n, m))

C1_Witness ==
    /\ pc = "done" /\ GInRange /\ HInRange
    /\ n >= 2 /\ m >= 2 /\ Len(G) >= 2
    /\ cnt > 0 /\ cnt < Pow(m, n)

\* C2: solve raises, and returns no count, whenever an edge of G has an
\* endpoint >= n, and also whenever an edge of H has an endpoint >= m.
C2_OutOfRangeFails ==
    (~GInRange \/ ~HInRange) => pc # "done"

\* C3: with G empty, solve(G,H,0,m) returns 1 for every m >= 0 and every H,
\* and solve(G,H,n,0) with n > 0 returns 0.
C3_Degenerate ==
    /\ (G = <<>> /\ n = 0) => (pc # "error" /\ (pc = "done" => cnt = 1))
    /\ (G = <<>> /\ n > 0 /\ m = 0) =>
          (pc # "error" /\ (pc = "done" => cnt = 0))

C3_Witness ==
    pc = "done" /\ G = <<>> /\ n = 0 /\ m = 0 /\ H # {} /\ cnt = 1

\* C4: if H holds every pair (i,j) over [0,m), self-pairs included, solve
\* returns m^n for every G over [0,n), self-loops allowed, n,m >= 1.
C4_CompleteTarget ==
    (GInRange /\ n >= 1 /\ m >= 1 /\ Complete(m) \subseteq H) =>
        (pc # "error" /\ (pc = "done" => cnt = Pow(m, n)))

C4_Witness ==
    /\ pc = "done" /\ GInRange /\ n >= 2 /\ m >= 2
    /\ Complete(m) \subseteq H
    /\ \E k \in 1 .. Len(G) : G[k][1] = G[k][2]
    /\ cnt = Pow(m, n)

\* C5: if H is empty and G has at least one edge, all endpoints in [0,n),
\* solve returns 0 for every m >= 0.
C5_EmptyTarget ==
    (H = {} /\ Len(G) >= 1 /\ GInRange) =>
        (pc # "error" /\ (pc = "done" => cnt = 0))

C5_Witness ==
    /\ pc = "done" /\ H = {} /\ Len(G) >= 1 /\ GInRange
    /\ m >= 1 /\ i >= 2 /\ cnt = 0

\* C6: for the commented example G (a tree on 5 vertices, both directions
\* of each edge), n = 5, and H all pairs i # j over [0,5), m = 5, solve
\* returns 5 * 4^4 = 1280.
C6_Example ==
    (ToSet(G) = ToSet(Example.G) /\ H = Example.H /\ n = 5 /\ m = 5) =>
        (pc # "error" /\ (pc = "done" => cnt = 5 * Pow(4, 4) /\ cnt = 1280))

C6_Witness ==
    /\ pc = "done" /\ ToSet(G) = ToSet(Example.G) /\ H = Example.H
    /\ n = 5 /\ m = 5 /\ i = 3125 /\ cnt = 1280

\* C7: no step of solve changes G, H, n or m, and the count returned does
\* not depend on the order in which the edges of G are iterated: a run on
\* the same inputs with the edges in any other order, if it returns,
\* returns the same count.
C7_OrderIndependent ==
    pc = "done" =>
        \A g2 \in Orders(G) :
            LET r == SolveOp(g2, H, n, m) IN r.raised \/ r.cnt = cnt

C7_InputsUnchanged == G' = G /\ H' = H /\ n' = n /\ m' = m

C8_Range == 0 <= cnt /\ cnt <= i /\ i <= Pow(m, n)

C8_Step ==
    /\ cnt' >= cnt
    /\ cnt' <= cnt + 1
    /\ cnt' # cnt => i' = i + 1

C8_Accumulator == []C8_Range /\ [][C8_Step]_vars

C8_Witness == pc = "done" /\ cnt >= 2 /\ cnt < i /\ i = Pow(m, n)

\* C9: for valid inputs solve terminates, having examined each of the m^n
\* assignments of {0..m-1}^n exactly once; a rejected candidate is followed
\* by the next candidate, never by the end of the enumeration.
C9_Valid == GInRange /\ HInRange /\ n >= 0 /\ m >= 0

\* the candidates at indexes 0 .. len-1 are the list product builds, and
\* that list holds every tuple of {0..m-1}^n once
C9_AllAssignments ==
    (pc = "loop" /\ i = 0) =>
        LET A == Product(RangeList(m), n)
        IN  /\ Len(A) = NumAssignments(m, n)
            /\ \A k \in 1 .. Len(A) : AssignmentAt(k - 1, m, n) = A[k]
            /\ ToSet(A) = [1 .. n -> 0 .. m - 1]
            /\ Cardinality(ToSet(A)) = Len(A)
            /\ Len(A) = Pow(m, n)

C9_OneAtATime ==
    pc = "loop" =>
        /\ pc' = "loop" => i' = i + 1
        /\ pc' = "done" => (i' = i /\ i = NumAssignments(m, n))

C9_Terminates ==
    /\ C9_Valid => <>(pc = "done" /\ i = Pow(m, n))
    /\ []C9_AllAssignments
    /\ [][C9_OneAtATime]_vars

C9_Witness ==
    /\ pc = "done" /\ C9_Valid /\ i = Pow(m, n) /\ i >= 4
    /\ cnt > 0 /\ cnt < i
    /\ Verify(G, H, AssignmentAt(0, m, n)) = "False"

\* C10: the matrix stays symmetric, every completed outer iteration adds
\* exactly one undirected edge that was absent, so on exit there are
\* exactly m distinct undirected edges; the loop can exit for every
\* iteration only when m <= n(n+1)/2.
Cap(k) == (k * (k + 1)) \div 2

UndirectedEdges(adj, k) ==
    {{a, b} : <<a, b>> \in {p \in Pairs(k) : adj[p[1]][p[2]] = 1}}

C10_Symmetric ==
    \A a, b \in 0 .. rg_n - 1 :
        adjacency_matrix[a][b] = adjacency_matrix[b][a]

C10_Count ==
    /\ Cardinality(UndirectedEdges(adjacency_matrix, rg_n)) = rg_i
    /\ rg_i <= rg_m
    /\ rg_pc = "done" => rg_i = rg_m

C10_ExitOnlyIfRoom ==
    /\ rg_pc = "done" => rg_m <= Cap(rg_n)
    /\ (rg_pc = "loop" /\ rg_i < rg_m /\ rg_m <= Cap(rg_n)) =>
          \E a, b \in 0 .. rg_n - 1 : adjacency_matrix[a][b] = 0

C10_Iteration ==
    /\ rg_i' # rg_i =>
          /\ rg_i' = rg_i + 1
          /\ {u', v'} \notin UndirectedEdges(adjacency_matrix, rg_n)
          /\ UndirectedEdges(adjacency_matrix', rg_n) =
                UndirectedEdges(adjacency_matrix, rg_n) \cup {{u', v'}}
    /\ rg_i' = rg_i => adjacency_matrix' = adjacency_matrix

\* ... and otherwise (m > n(n+1)/2) the retry loop spins forever: the call
\* neither returns nor raises, and a further draw is always possible.
C10_SpinsWhenNoRoom ==
    rg_m > Cap(rg_n) => (rg_pc = "loop" /\ ENABLED NextRG)

C10_RandomGraph ==
    /\ [](C10_Symmetric /\ C10_Count /\ C10_ExitOnlyIfRoom /\ C10_SpinsWhenNoRoom)
    /\ [][C10_Iteration]_vars

\* C10 as amended: the same, with the spinning stated for n >= 1; for n = 0
\* and m >= 1 the first random.randint(0, -1) raises instead.
C10_SpinsWhenNoRoomAmended ==
    /\ (rg_n >= 1 /\ rg_m > Cap(rg_n)) =>
          (rg_pc = "loop" /\ ENABLED (RGInsert \/ RGRetry))
    /\ (rg_n = 0 /\ rg_m >= 1) =>
          (rg_pc # "done" /\ ~ENABLED (RGInsert \/ RGRetry)
              /\ (rg_pc = "loop" => ENABLED RGRaise))

C10_RandomGraphAmended ==
    /\ [](C10_Symmetric /\ C10_Count /\ C10_ExitOnlyIfRoom
            /\ C10_SpinsWhenNoRoomAmended)
    /\ [][C10_Iteration]_vars

C10_Witness ==
    /\ rg_pc = "loop" /\ rg_n = 2 /\ rg_m > Cap(rg_n) /\ rg_i = Cap(rg_n)
    /\ \A a, b \in 0 .. rg_n - 1 : adjacency_matrix[a][b] = 1
    /\ u # v
====
